---- MODULE Spec2Model ----
(***************************************************************************)
(* Multi-tenant control plane: the connection manager                      *)
(* (src/config/tenantDatabase.js, TenantDatabaseManager) and the tenant    *)
(* service (src/services/tenantService.js, TenantService).                 *)
(*                                                                         *)
(* Node runs one callback at a time, so a step of the model is the code    *)
(* between two awaits of one call; calls interleave at their awaits.       *)
(* Every store operation (registry read/write, open, close) may fail.      *)
(***************************************************************************)
EXTENDS Integers, Sequences, FiniteSets, TLC

\* ---------------------------------------------------------------- bounds
\* Tenant ids generateTenantId hands out are 1..MaxTenants.
MaxTenants == 3
\* Tenants already in the registry when the process starts: 1..SeedTenants.
SeedTenants == 2
\* Store handles mongoose.createConnection can open in one run.
MaxHandles == 3
\* The clock runs from 0 to MaxTime.
MaxTime == 2
\* Shutdown signals the process receives in one run.
MaxSignals == 2
\* Store handles opened in a run in which evicted tenants are resolved again.
MaxChurn == 5

\* this.maxCachedConnections (50 in the constructor), scaled down so that
\* capacity + 1 tenants fit in the model.
maxCachedConnections == 2

\* The calls that can be in flight at once.
Procs == {1, 2}
TenantIds == 1..MaxTenants

\* The lifetime of an invitation (7 days), taken as the unit of time.
InvitationTtl == 1

\* ------------------------------------------------------------ identifiers
\* ObjectIds are unique: the tenantId string, the Tenant document's _id and
\* the Invitation document's _id of creation n are three different values.
TenantOid(n) == MaxTenants + n
InvitationOid(n) == 2 * MaxTenants + n

\* generateDatabaseName: `tenant_${tenantId}`
generateDatabaseName(tenantId) == <<"tenant_", tenantId>>

\* ------------------------------------------------------------ subdomains
\* A string is a sequence of one-character strings.
LowerLetters ==
    {"a","b","c","d","e","f","g","h","i","j","k","l","m",
     "n","o","p","q","r","s","t","u","v","w","x","y","z"}
Digits == {"0","1","2","3","4","5","6","7","8","9"}
AlphaNum == LowerLetters \cup Digits

toLowerCase(c) ==
    CASE c = "A" -> "a" [] c = "B" -> "b" [] c = "C" -> "c" [] c = "S" -> "s"
      [] OTHER -> c

SubdomainMaxLen == 63

\* sanitizeSubdomain: toLowerCase, drop every character outside [a-z0-9-],
\* keep the first 63.
sanitizeSubdomain(subdomain) ==
    LET lower == [i \in 1..Len(subdomain) |-> toLowerCase(subdomain[i])]
        kept == SelectSeq(lower, LAMBDA c : c \in AlphaNum \cup {"-"})
    IN  SubSeq(kept, 1, IF Len(kept) < SubdomainMaxLen THEN Len(kept) ELSE SubdomainMaxLen)

\* Variant that accepts any non-empty string.
isValidSubdomain_NonEmpty(subdomain) == Len(subdomain) >= 1

\* isValidSubdomain: /^[a-z0-9]([a-z0-9-]{0,61}[a-z0-9])?$/
isValidSubdomain(subdomain) ==
    /\ Len(subdomain) >= 1
    /\ Len(subdomain) <= SubdomainMaxLen
    /\ subdomain[1] \in AlphaNum
    /\ subdomain[Len(subdomain)] \in AlphaNum
    /\ \A i \in 1..Len(subdomain) : subdomain[i] \in AlphaNum \cup {"-"}

\* ------------------------------------------------------------- the cache
\* this.connections is a JS Map: a sequence of entries in insertion order.
Has(m, k) == \E i \in 1..Len(m) : m[i].key = k
Get(m, k) == LET i == CHOOSE i \in 1..Len(m) : m[i].key = k IN m[i].conn
\* Map.set keeps the position of a key that is present and appends a new one.
MapSet(m, k, c) ==
    IF Has(m, k)
    THEN [i \in 1..Len(m) |-> IF m[i].key = k THEN [key |-> k, conn |-> c] ELSE m[i]]
    ELSE Append(m, [key |-> k, conn |-> c])
\* Variant of Map.delete that leaves the entry.
MapDelete_Kept(m, k) == m
\* Map.delete
MapDelete(m, k) == SelectSeq(m, LAMBDA e : e.key # k)
\* keys().next().value: the first key, undefined (0) on an empty Map.
FirstKey(m) == IF Len(m) = 0 THEN 0 ELSE m[1].key
Keys(m) == {m[i].key : i \in 1..Len(m)}

\* ------------------------------------------------------------------ state
VARIABLES
    masterConnection,   \* this.masterConnection: "null", "ready" or "dropped"
    now,                \* Date.now(), in units of the invitation lifetime
    stores,             \* the tenant databases that physically exist
    tenants,            \* the registry's Tenant collection
    invitations,        \* the registry's Invitation collection
    handles,            \* every tenant connection opened so far, by handle id
    connections,        \* this.connections
    insertedAt,         \* history: the handle whose caching inserted each key
    nextTenantId,       \* the next id generateTenantId returns
    procs,              \* the calls in flight: position and locals
    returned,           \* the return or throw the last step made, if any
    phaseAFailed,       \* history: creations that failed before their commit
    phaseBFailed,       \* history: creations whose Phase B failed and returned
    node,               \* the process: its HTTP server, shutdown timers, exit
    closeAll,           \* the closeAllConnections calls of the shutdowns
    background          \* the side operations started without being awaited

vars == <<masterConnection, now, stores, tenants, invitations, handles, connections,
          insertedAt, nextTenantId, procs, returned, phaseAFailed, phaseBFailed,
          node, closeAll, background>>

NoInput == [organizationName |-> "", subdomain |-> <<>>, adminEmail |-> ""]

Idle == [pc |-> "idle", op |-> "none", tid |-> 0, dbName |-> <<>>, conn |-> 0,
         firstKey |-> 0, closing |-> 0, cause |-> "", input |-> NoInput,
         subdomain |-> <<>>, stagedTenants |-> {}, stagedInvitations |-> {},
         expiresAt |-> 0, oid |-> 0, token |-> 0, at |-> 0]

NoResult ==
    [op |-> "none", tid |-> 0, status |-> "none", conn |-> 0, error |-> "", step |-> ""]

\* A closeAllConnections call that has not started: its position, the place of
\* its Map iterator (the insertion stamp of the entry it visited last) and
\* the handle whose close it awaits.
NoCloseAll == [pc |-> "idle", cursor |-> 0, closing |-> 0]

\* No side operation started yet. `pending` holds the promises nobody awaits,
\* `failed` remembers the ones whose failure was logged, and lastAccessedAt
\* is that field of the Tenant documents, by tenantId.
NoBackground ==
    [pending |-> {}, failed |-> {}, lastAccessedAt |-> [t \in TenantIds |-> 0]]

\* A tenant the seed script or an earlier run of the process left in the
\* registry (seed-data.js: status active, isActive true).
SeedSubdomain(n) == <<"s", CHOOSE d \in Digits : d = ToString(n)>>
SeedTenant(n) ==
    [tenantId |-> n, _id |-> TenantOid(n), subdomain |-> SeedSubdomain(n),
     databaseName |-> generateDatabaseName(n), primaryAdminEmail |-> "seed",
     status |-> "active", isActive |-> TRUE]

\* The invitation createTenant wrote with a seeded tenant, not accepted yet.
SeedInvitation(n) ==
    [_id |-> InvitationOid(n), email |-> "seed", tenantId |-> TenantOid(n),
     status |-> "pending", token |-> InvitationOid(n), expiresAt |-> InvitationTtl]

\* The state after construction (constructor, lines 291-296) over a registry
\* that holds the tenants 1..seeds and the invitations `invited`; the ids below
\* nextId were handed out before (the tenants that are missing were deleted or
\* never committed).
InitRegistry(seeds, nextId, invited) ==
    /\ masterConnection = "null"
    /\ now = 0
    /\ stores = {generateDatabaseName(n) : n \in 1..seeds}
    /\ tenants = {SeedTenant(n) : n \in 1..seeds}
    /\ invitations = invited
    /\ handles = <<>>
    /\ connections = <<>>
    /\ insertedAt = [t \in TenantIds |-> 0]
    /\ nextTenantId = nextId
    /\ procs = [p \in Procs |-> Idle]
    /\ returned = NoResult
    /\ phaseAFailed = {}
    /\ phaseBFailed = {}
    /\ node = [server |-> "off", signals |-> 0, timers |-> 0, exit |-> "running"]
    /\ closeAll = [k \in 1..MaxSignals |-> NoCloseAll]
    /\ background = NoBackground

InitWith(seeds, nextId) == InitRegistry(seeds, nextId, {})

Init == InitWith(SeedTenants, SeedTenants + 1)

\* startServer: connectMaster, then app.listen. Requests arrive only after it.
StartServer ==
    /\ node.server = "off"
    /\ masterConnection = "null"
    /\ masterConnection' = "ready"
    /\ node' = [node EXCEPT !.server = "listening"]
    /\ returned' = NoResult
    /\ UNCHANGED <<now, stores, tenants, invitations, handles, connections, insertedAt,
                   nextTenantId, procs, phaseAFailed, phaseBFailed,
                   closeAll, background>>

\* The HTTP server accepts requests.
Listening == node.server = "listening"

\* The master connection loses its server: readyState 0. The 'disconnected'
\* handler (lines 324-326) writes a warning; this.masterConnection stays set.
MasterDisconnected ==
    /\ masterConnection = "ready"
    /\ masterConnection' = "dropped"
    /\ returned' = NoResult
    /\ UNCHANGED <<now, stores, tenants, invitations, handles, connections, insertedAt,
                   nextTenantId, procs, phaseAFailed, phaseBFailed,
                   node, closeAll, background>>

\* The driver finds the server again on its own: 'connected' (lines 316-318),
\* readyState 1.
MasterReconnected ==
    /\ masterConnection = "dropped"
    /\ masterConnection' = "ready"
    /\ returned' = NoResult
    /\ UNCHANGED <<now, stores, tenants, invitations, handles, connections, insertedAt,
                   nextTenantId, procs, phaseAFailed, phaseBFailed,
                   node, closeAll, background>>

\* History of the cache: a key that enters the cache is stamped with the id of
\* the handle just opened (ids grow with time), a key that stays keeps its
\* stamp whatever is stored under it, a key that leaves loses it.
Restamp(new, c) ==
    [t \in TenantIds |->
        IF t \notin Keys(new) THEN 0
        ELSE IF t \in Keys(connections) THEN insertedAt[t] ELSE c]

\* ------------------------------------------------------- call and return
Return(p, res) ==
    /\ procs' = [procs EXCEPT ![p] = Idle]
    /\ returned' = res

Goto(p, rec) ==
    /\ procs' = [procs EXCEPT ![p] = rec]
    /\ returned' = NoResult

Ok(op, tid, conn) ==
    [op |-> op, tid |-> tid, status |-> "ok", conn |-> conn, error |-> "", step |-> ""]
Err(op, tid, error) ==
    [op |-> op, tid |-> tid, status |-> "error", conn |-> 0, error |-> error, step |-> ""]
\* createTenant threw `error` at `step`.
CtErr(tid, step, error) ==
    [op |-> "createTenant", tid |-> tid, status |-> "error", conn |-> 0,
     error |-> error, step |-> step]

\* getTenantConnection returns or throws: to the HTTP layer for a plain
\* resolve, into Phase B for createTenant (tenantService.js 134-144), into
\* register (authService.js 36-38), which throws what it throws.
GtcFinish(p, rec, status, conn, error) ==
    IF rec.op = "createTenant"
    THEN IF status = "ok"
         THEN Goto(p, [rec EXCEPT !.pc = "ct_schema", !.conn = conn])
         ELSE Goto(p, [rec EXCEPT !.pc = "ct_comp_tenant", !.cause = error])
    ELSE IF rec.op = "register"
    THEN IF status = "ok"
         THEN Goto(p, [rec EXCEPT !.pc = "reg_user", !.conn = conn])
         ELSE Return(p, Err("register", rec.tid, error))
    ELSE IF status = "ok"
         THEN Return(p, Ok("resolve", rec.tid, conn))
         ELSE Return(p, Err("resolve", rec.tid, error))

\* Variant of the cache check that also asks for an active tenant record.
IsReady_AndActive(c) ==
    /\ handles[c].state = "ready"
    /\ \E d \in tenants : d.tenantId = handles[c].tenantId /\ d.isActive

\* connection.readyState === 1
IsReady(c) == handles[c].state = "ready"

\* Variant of the cache check that leaves a handle found not ready.
DropStale_Kept(m, tenantId) == m

\* Line 381: a cached handle found not ready is deleted from the cache.
DropStale(m, tenantId) == MapDelete(m, tenantId)

\* getTenantConnection up to its first await: the cache check.
GtcCall(p, rec) ==
    IF Has(connections, rec.tid)
    THEN IF IsReady(Get(connections, rec.tid))
         THEN /\ UNCHANGED <<connections, insertedAt>>
              /\ GtcFinish(p, rec, "ok", Get(connections, rec.tid), "")
         ELSE /\ connections' = DropStale(connections, rec.tid)
              /\ insertedAt' = Restamp(connections', 0)
              /\ Goto(p, [rec EXCEPT !.pc = "gtc_meta"])
    ELSE /\ UNCHANGED <<connections, insertedAt>>
         /\ Goto(p, [rec EXCEPT !.pc = "gtc_meta"])

\* resolve(t): a request asks for tenant t's connection.
StartResolve(p, t) ==
    /\ Listening
    /\ procs[p].pc = "idle"
    /\ GtcCall(p, [Idle EXCEPT !.op = "resolve", !.tid = t])
    /\ UNCHANGED <<masterConnection, now, stores, tenants, invitations, handles,
                   nextTenantId, phaseAFailed, phaseBFailed,
                   node, closeAll, background>>

\* getTenantMetadata: Tenant.findOne({ tenantId, isActive: true }).lean()
getTenantMetadata(tenantId) ==
    {d \in tenants : d.tenantId = tenantId /\ d.isActive}

\* Variant of the lookup that takes any record of the tenant, active or not.
LookupTenant_AnyRecord(tenantId) ==
    LET found == {d \in tenants : d.tenantId = tenantId}
    IN  IF found = {} THEN [error |-> "NotFound", docs |-> {}]
        ELSE [error |-> "", docs |-> found]

\* Lines 388-396: the lookup and the two checks on what it returned.
LookupTenant(tenantId) ==
    LET found == getTenantMetadata(tenantId)
    IN  IF found = {} THEN [error |-> "NotFound", docs |-> {}]
        ELSE IF \E d \in found : ~d.isActive
             THEN [error |-> "TenantInactive", docs |-> {}]
             ELSE [error |-> "", docs |-> found]

\* The registry answered (or failed): lines 388-400. A query sent through a
\* master connection that is not connected is answered once it is connected
\* again, or fails.
GtcMetadata(p) ==
    LET rec == procs[p]
        looked == LookupTenant(rec.tid)
    IN  /\ rec.pc = "gtc_meta"
        /\ \/ GtcFinish(p, rec, "error", 0, "RegistryError")
           \/ /\ masterConnection = "ready"
              /\ looked.error # ""
              /\ GtcFinish(p, rec, "error", 0, looked.error)
           \/ /\ masterConnection = "ready"
              /\ \E tenant \in looked.docs :
                Goto(p, [rec EXCEPT !.pc = "gtc_open",
                                    !.dbName = IF tenant.databaseName # <<>>
                                               THEN tenant.databaseName
                                               ELSE <<"tenant_", rec.tid>>])
        /\ UNCHANGED <<masterConnection, now, stores, tenants, invitations, handles,
                       connections, insertedAt, nextTenantId, phaseAFailed, phaseBFailed,
                   node, closeAll, background>>

\* connection.close() up to its first await: a connected handle starts
\* disconnecting (readyState 3); on any other it has nothing to start.
BeginClose(hs, c) ==
    IF hs[c].state = "ready" THEN [hs EXCEPT ![c].state = "closing"] ELSE hs

\* The 'disconnected' handler of handle c (lines 423-426):
\* this.connections.delete(tenantId), whatever the entry holds by now.
OnDisconnected(m, c) == MapDelete(m, handles[c].tenantId)

\* closeTenantConnection after its await (line 504).
CtcDelete(m, tenantId) == MapDelete(m, tenantId)

\* Variant that picks the key inserted last.
OldestKey_Newest(m) == IF Len(m) = 0 THEN 0 ELSE m[Len(m)].key

\* cleanupOldestConnection picks this.connections.keys().next().value.
OldestKey(m) == FirstKey(m)

\* Variant of getTenantConnection that does not cache the handle.
CacheConnection_Skipped(m, tenantId, c) == m

\* The cache entry getTenantConnection writes (line 429).
CacheConnection(m, tenantId, c) == MapSet(m, tenantId, c)

\* The store the new handle is opened against (lines 399-403).
OpenedDb(rec) == rec.dbName

\* A call made without await: its promise settles in a later step.
Launch(b, op, tenantId, c) ==
    [b EXCEPT !.pending = @ \cup {[op |-> op, tid |-> tenantId, conn |-> c]}]

\* createConnection answered: lines 403-441 up to the await in
\* closeTenantConnection, or to the return when the cache is within its limit.
GtcOpenUpTo(p, limit) ==
    LET rec == procs[p]
        c == Len(handles) + 1
        opened == Append(handles, [tenantId |-> rec.tid, db |-> OpenedDb(rec),
                                   state |-> "ready"])
        cached == CacheConnection(connections, rec.tid, c)
        firstKey == OldestKey(cached)
    IN  /\ rec.pc = "gtc_open"
        /\ \/ /\ GtcFinish(p, rec, "error", 0, "ConnectionFailed")
              /\ UNCHANGED <<handles, connections, insertedAt, background>>
           \/ /\ Len(handles) < limit
              /\ connections' = cached
              /\ insertedAt' = Restamp(cached, c)
              /\ background' = Launch(background, "lastAccess", rec.tid, c)
              /\ IF Len(cached) > maxCachedConnections /\ firstKey # 0
                 THEN /\ handles' = BeginClose(opened, Get(cached, firstKey))
                      /\ Goto(p, [rec EXCEPT !.pc = "ctc_close", !.conn = c,
                                             !.firstKey = firstKey,
                                             !.closing = Get(cached, firstKey)])
                 ELSE /\ handles' = opened
                      /\ GtcFinish(p, rec, "ok", c, "")
        /\ UNCHANGED <<masterConnection, now, stores, tenants, invitations, nextTenantId,
                       phaseAFailed, phaseBFailed,
                   node, closeAll>>

\* The same within the handles of a run.
GtcOpen(p) == GtcOpenUpTo(p, MaxHandles)

\* evict(t): closeTenantConnection(t) called on its own (lines 500-502).
StartEvict(p, t) ==
    /\ Listening
    /\ procs[p].pc = "idle"
    /\ IF Has(connections, t)
       THEN /\ handles' = BeginClose(handles, Get(connections, t))
            /\ Goto(p, [Idle EXCEPT !.op = "evict", !.pc = "ctc_close", !.tid = t,
                                    !.firstKey = t, !.closing = Get(connections, t)])
       ELSE /\ Return(p, Ok("evict", t, 0))
            /\ UNCHANGED handles
    /\ UNCHANGED <<masterConnection, now, stores, tenants, invitations, connections, insertedAt,
                   nextTenantId, phaseAFailed, phaseBFailed,
                   node, closeAll, background>>

\* closeTenantConnection returns or throws: to the caller of evict, into
\* deleteTenant (tenantService.js 381), or into cleanupOldestConnection, which
\* swallows the error and lets getTenantConnection return its handle.
CtcFinish(p, rec, closed) ==
    IF rec.op = "evict"
    THEN IF closed
         THEN Return(p, Ok("evict", rec.tid, 0))
         ELSE Return(p, Err("evict", rec.tid, "CloseFailed"))
    ELSE IF rec.op = "deleteTenant"
    THEN IF closed
         THEN Goto(p, [rec EXCEPT !.pc = "dt_connect"])
         ELSE Return(p, Err("deleteTenant", rec.tid, "CloseFailed"))
    ELSE GtcFinish(p, rec, "ok", rec.conn, "")

\* connection.close() answered inside closeTenantConnection (lines 503-506).
\* A close that succeeds leaves the handle disconnected, which runs its
\* 'disconnected' handler; then line 504 deletes the key. A close that throws
\* skips line 504: cleanupOldestConnection swallows the error (519-521), a
\* direct caller gets it.
CtcClose(p) ==
    LET rec == procs[p] IN
    /\ rec.pc = "ctc_close"
    /\ \/ /\ handles' = [handles EXCEPT ![rec.closing].state = "closed"]
          /\ connections' = CtcDelete(OnDisconnected(connections, rec.closing),
                                      rec.firstKey)
          /\ insertedAt' = Restamp(connections', 0)
          /\ CtcFinish(p, rec, TRUE)
       \/ /\ UNCHANGED <<handles, connections, insertedAt>>
          /\ CtcFinish(p, rec, FALSE)
    /\ UNCHANGED <<masterConnection, now, stores, tenants, invitations, nextTenantId,
                   phaseAFailed, phaseBFailed,
                   node, closeAll, background>>

\* A transport-level disconnect of a connected handle: readyState 0 and the
\* 'disconnected' handler.
Disconnected(c) ==
    /\ c \in 1..Len(handles)
    /\ handles[c].state = "ready"
    /\ handles' = [handles EXCEPT ![c].state = "disconnected"]
    /\ connections' = OnDisconnected(connections, c)
    /\ insertedAt' = Restamp(connections', 0)
    /\ returned' = NoResult
    /\ UNCHANGED <<masterConnection, now, stores, tenants, invitations, nextTenantId,
                   procs, phaseAFailed, phaseBFailed,
                   node, closeAll, background>>

\* --------------------------------------------------------------- lifecycle
\* Variant with a unique index on tenantId only.
ViolatesUnique_TenantIdOnly(doc, docs) ==
    \E d \in docs : d.tenantId = doc.tenantId

\* The unique indexes of tenantSchema (Tenant.js 6-12).
ViolatesUnique(doc, docs) ==
    \E d \in docs : \/ d.tenantId = doc.tenantId
                    \/ d.subdomain = doc.subdomain
                    \/ d.databaseName = doc.databaseName

\* findOneAndUpdate({ tenantId }, { $set: set }): one registry operation. An
\* update that would break a unique index is rejected and changes nothing.
findOneAndUpdate(tenantId, set) ==
    LET updated(d) == [f \in DOMAIN d |-> IF f \in DOMAIN set THEN set[f] ELSE d[f]]
    IN  IF \E d \in tenants : /\ d.tenantId = tenantId
                              /\ ViolatesUnique(updated(d), tenants \ {d})
        THEN tenants
        ELSE {IF d.tenantId = tenantId THEN updated(d) ELSE d : d \in tenants}

\* suspendTenant (lines 308-334)
SuspendTenant(t) ==
    /\ Listening
    /\ tenants' = findOneAndUpdate(t, [status |-> "suspended", isActive |-> FALSE])
    /\ returned' = NoResult
    /\ UNCHANGED <<masterConnection, now, stores, invitations, handles, connections, insertedAt,
                   nextTenantId, procs, phaseAFailed, phaseBFailed,
                   node, closeAll, background>>

\* activateTenant (lines 339-365)
ActivateTenant(t) ==
    /\ Listening
    /\ tenants' = findOneAndUpdate(t, [status |-> "active", isActive |-> TRUE])
    /\ returned' = NoResult
    /\ UNCHANGED <<masterConnection, now, stores, invitations, handles, connections, insertedAt,
                   nextTenantId, procs, phaseAFailed, phaseBFailed,
                   node, closeAll, background>>

\* Variant that $sets the payload as it came.
Sanitized_KeepsIdentity(updates) == updates

\* updateTenant drops tenantId, databaseName and createdBy from the payload
\* (lines 282-284) and $sets the rest.
Sanitized(updates) ==
    [f \in DOMAIN updates \ {"tenantId", "databaseName", "createdBy"} |-> updates[f]]

\* Payloads an operator can send: ones that name the identity fields, and
\* ones that set the lifecycle fields or the subdomain.
IdentityUpdates ==
    { [tenantId |-> 0, databaseName |-> generateDatabaseName(0)],
      [databaseName |-> generateDatabaseName(0)] }
Updates ==
    { [isActive |-> FALSE], [status |-> "cancelled"], [status |-> "active"],
      [subdomain |-> <<"a", "b">>] }
        \cup IdentityUpdates

\* updateTenant (lines 277-303)
UpdateTenant(t, updates) ==
    /\ Listening
    /\ tenants' = findOneAndUpdate(t, Sanitized(updates))
    /\ returned' = NoResult
    /\ UNCHANGED <<masterConnection, now, stores, invitations, handles, connections, insertedAt,
                   nextTenantId, procs, phaseAFailed, phaseBFailed,
                   node, closeAll, background>>

\* ------------------------------------------------------------ createTenant
\* Request bodies an operator can send.
RawSubdomains == { <<"S", "1">>, <<"a", "b">>, <<"!">> }
Emails == { "e1" }
TenantData ==
    [organizationName : {"Acme"}, subdomain : RawSubdomains, adminEmail : Emails]

\* Request bodies of any shape: fields left empty, subdomains that are no DNS
\* label once normalized ("!", "-a"), and "Acme Corp!".
AnySubdomains ==
    { <<>>, <<"!">>, <<"-", "a">>, <<"a", "b">>,
      <<"A", "c", "m", "e", " ", "C", "o", "r", "p", "!">> }
AnyTenantData ==
    [organizationName : {"", "Acme"}, subdomain : AnySubdomains,
     adminEmail : {"", "e1"}]

\* createTenant is called (line 34); it awaits ensureIndexes and startSession.
StartCreateTenant(p, tenantData) ==
    /\ Listening
    /\ procs[p].pc = "idle"
    /\ Goto(p, [Idle EXCEPT !.op = "createTenant", !.pc = "ct_validate",
                            !.input = tenantData, !.at = now])
    /\ UNCHANGED <<masterConnection, now, stores, tenants, invitations, handles, connections, insertedAt,
                   nextTenantId, phaseAFailed, phaseBFailed,
                   node, closeAll, background>>

\* The catch block of createTenant before the commit (lines 171-178): the
\* transaction is aborted, so what it staged is dropped, and the error is
\* rethrown.
AbortAndThrow(p, step, error) ==
    /\ Return(p, CtErr(procs[p].tid, step, error))
    /\ phaseAFailed' = IF procs[p].tid = 0 THEN phaseAFailed
                       ELSE phaseAFailed \cup {[tid |-> procs[p].tid, step |-> step]}

\* Steps 1-2 (lines 45-54), then the subdomain query is sent.
CtValidate(p) ==
    LET rec == procs[p]
        subdomain == sanitizeSubdomain(rec.input.subdomain)
    IN  /\ rec.pc = "ct_validate"
        /\ IF \/ rec.input.organizationName = ""
              \/ rec.input.subdomain = <<>>
              \/ rec.input.adminEmail = ""
              \/ ~isValidSubdomain(subdomain)
           THEN AbortAndThrow(p, "validate", "ValidationError")
           ELSE /\ Goto(p, [rec EXCEPT !.pc = "ct_subdomain", !.subdomain = subdomain])
                /\ UNCHANGED phaseAFailed
        /\ UNCHANGED <<masterConnection, now, stores, tenants, invitations, handles, connections, insertedAt,
                       nextTenantId, phaseBFailed,
                   node, closeAll, background>>

\* Step 3 (lines 56-61): Tenant.findOne({ subdomain }) answered.
CtSubdomain(p) ==
    LET rec == procs[p] IN
    /\ rec.pc = "ct_subdomain"
    /\ \/ AbortAndThrow(p, "subdomain", "RegistryError")
       \/ /\ \E d \in tenants : d.subdomain = rec.subdomain
          /\ AbortAndThrow(p, "subdomain", "Conflict")
       \/ /\ ~ \E d \in tenants : d.subdomain = rec.subdomain
          /\ Goto(p, [rec EXCEPT !.pc = "ct_invitation"])
          /\ UNCHANGED phaseAFailed
    /\ UNCHANGED <<masterConnection, now, stores, tenants, invitations, handles, connections, insertedAt,
                   nextTenantId, phaseBFailed,
                   node, closeAll, background>>

\* The documents steps 5-7 build (lines 73-122) for creation n.
NewTenant(n, rec) ==
    [tenantId |-> n, _id |-> TenantOid(n), subdomain |-> rec.subdomain,
     databaseName |-> generateDatabaseName(n),
     primaryAdminEmail |-> rec.input.adminEmail,
     status |-> "trial", isActive |-> TRUE]
NewInvitation(n, rec) ==
    [_id |-> InvitationOid(n), email |-> rec.input.adminEmail,
     tenantId |-> TenantOid(n), status |-> "pending",
     token |-> InvitationOid(n), expiresAt |-> rec.expiresAt]

\* Step 4 (lines 63-71): Invitation.findOne({ email, status: 'pending' })
\* answered; then steps 5-6 up to tenant.save.
CtInvitation(p) ==
    LET rec == procs[p] IN
    /\ rec.pc = "ct_invitation"
    /\ \/ /\ AbortAndThrow(p, "invitation", "RegistryError")
          /\ UNCHANGED nextTenantId
       \/ /\ \E i \in invitations : i.email = rec.input.adminEmail /\ i.status = "pending"
          /\ AbortAndThrow(p, "invitation", "Conflict")
          /\ UNCHANGED nextTenantId
       \/ /\ ~ \E i \in invitations : i.email = rec.input.adminEmail /\ i.status = "pending"
          /\ nextTenantId <= MaxTenants
          /\ nextTenantId' = nextTenantId + 1
          /\ Goto(p, [rec EXCEPT !.pc = "ct_save_tenant", !.tid = nextTenantId])
          /\ UNCHANGED phaseAFailed
    /\ UNCHANGED <<masterConnection, now, stores, tenants, invitations, handles, connections, insertedAt,
                   phaseBFailed,
                   node, closeAll, background>>

\* Tenant documents other open transactions have written.
StagedElsewhere(p) == UNION {procs[q].stagedTenants : q \in Procs \ {p}}

\* Variant: a write made without the session is visible at once.
WriteInSession_Immediate(collection, doc) == collection \cup {doc}

\* What a write inside the session does to the collection: nothing until the
\* commit.
WriteInSession(collection, doc) == collection

\* tenant.save({ session }) answered (line 104); the invitation is built
\* (lines 109-122, expiresAt from the clock at that moment) and its save sent.
CtSaveTenant(p) ==
    LET rec == procs[p]
        tenant == NewTenant(rec.tid, rec)
    IN  /\ rec.pc = "ct_save_tenant"
        /\ \/ /\ AbortAndThrow(p, "saveTenant", "RegistryError")
              /\ UNCHANGED tenants
           \/ /\ ViolatesUnique(tenant, tenants \cup StagedElsewhere(p))
              /\ AbortAndThrow(p, "saveTenant", "DuplicateKey")
              /\ UNCHANGED tenants
           \/ /\ ~ViolatesUnique(tenant, tenants \cup StagedElsewhere(p))
              /\ tenants' = WriteInSession(tenants, tenant)
              /\ Goto(p, [rec EXCEPT !.pc = "ct_save_invitation",
                                     !.stagedTenants = {tenant},
                                     !.expiresAt = now + InvitationTtl])
              /\ UNCHANGED phaseAFailed
        /\ UNCHANGED <<masterConnection, now, stores, invitations, handles, connections, insertedAt,
                       nextTenantId, phaseBFailed,
                   node, closeAll, background>>

\* invitation.save({ session }) answered (line 124).
CtSaveInvitation(p) ==
    LET rec == procs[p]
        invitation == NewInvitation(rec.tid, rec)
    IN  /\ rec.pc = "ct_save_invitation"
        /\ \/ /\ AbortAndThrow(p, "saveInvitation", "RegistryError")
              /\ UNCHANGED invitations
           \/ /\ invitations' = WriteInSession(invitations, invitation)
              /\ Goto(p, [rec EXCEPT !.pc = "ct_commit",
                                     !.stagedInvitations = {invitation}])
              /\ UNCHANGED phaseAFailed
        /\ UNCHANGED <<masterConnection, now, stores, tenants, handles, connections, insertedAt,
                       nextTenantId, phaseBFailed,
                   node, closeAll, background>>

\* session.commitTransaction() answered (line 129); on success Phase B starts
\* with the call of getTenantConnection (line 135).
CtCommit(p) ==
    LET rec == procs[p] IN
    /\ rec.pc = "ct_commit"
    /\ \/ /\ AbortAndThrow(p, "commit", "RegistryError")
          /\ UNCHANGED <<tenants, invitations, connections, insertedAt>>
       \/ /\ tenants' = tenants \cup rec.stagedTenants
          /\ invitations' = invitations \cup rec.stagedInvitations
          /\ GtcCall(p, [rec EXCEPT !.stagedTenants = {}, !.stagedInvitations = {}])
          /\ UNCHANGED phaseAFailed
    /\ UNCHANGED <<masterConnection, now, stores, handles, nextTenantId, phaseBFailed,
                   node, closeAll, background>>

\* Variant of the rollback that leaves the tenant record.
DeleteTenantRecord_Kept(docs, tenantId) == docs

\* Tenant.deleteOne({ tenantId }) (line 140)
DeleteTenantRecord(docs, tenantId) == {d \in docs : d.tenantId # tenantId}

\* Variant of the rollback that leaves the invitation.
DeleteInvitationRecord_Skipped(docs, id) == docs

\* Invitation.deleteOne({ _id: invitation._id }) (line 141)
DeleteInvitationRecord(docs, id) == {i \in docs : i._id # id}

\* initializeTenantSchema answered (line 136). Creating the indexes creates
\* the database; a failure may come before or after the first index. On
\* success the invitation e-mail is sent without being awaited and
\* createTenant returns.
CtSchema(p) ==
    LET rec == procs[p]
        created == stores \cup {handles[rec.conn].db}
    IN
    /\ rec.pc = "ct_schema"
    /\ \/ /\ Return(p, Ok("createTenant", rec.tid, rec.conn))
          /\ stores' = created
          /\ background' = Launch(background, "invitationEmail", rec.tid, 0)
       \/ /\ Goto(p, [rec EXCEPT !.pc = "ct_comp_tenant", !.cause = "SchemaInitFailed"])
          /\ stores' \in {stores, created}
          /\ UNCHANGED background
    /\ UNCHANGED <<masterConnection, now, tenants, invitations, handles, connections, insertedAt,
                   nextTenantId, phaseAFailed, phaseBFailed,
                   node, closeAll>>

\* What is remembered of a creation whose Phase B failed.
PhaseBFailure(rec, compensated) ==
    [tid |-> rec.tid, cause |-> rec.cause, compensated |-> compensated,
     input |-> rec.input]

\* The manual rollback (lines 138-144), first delete: Tenant.deleteOne
\* answered. If it throws, the catch block is left with that error.
CtCompTenant(p) ==
    LET rec == procs[p] IN
    /\ rec.pc = "ct_comp_tenant"
    /\ \/ /\ Return(p, CtErr(rec.tid, "compTenant", "RegistryError"))
          /\ phaseBFailed' = phaseBFailed \cup {PhaseBFailure(rec, FALSE)}
          /\ UNCHANGED tenants
       \/ /\ tenants' = DeleteTenantRecord(tenants, rec.tid)
          /\ Goto(p, [rec EXCEPT !.pc = "ct_comp_invitation"])
          /\ UNCHANGED phaseBFailed
    /\ UNCHANGED <<masterConnection, now, stores, invitations, handles, connections, insertedAt,
                   nextTenantId, phaseAFailed,
                   node, closeAll, background>>

\* Second delete: Invitation.deleteOne answered; then ApiError(500).
CtCompInvitation(p) ==
    LET rec == procs[p] IN
    /\ rec.pc = "ct_comp_invitation"
    /\ \/ /\ Return(p, CtErr(rec.tid, "compInvitation", "RegistryError"))
          /\ phaseBFailed' = phaseBFailed \cup {PhaseBFailure(rec, FALSE)}
          /\ UNCHANGED invitations
       \/ /\ invitations' = DeleteInvitationRecord(invitations, InvitationOid(rec.tid))
          /\ Return(p, CtErr(rec.tid, "compInvitation", "ProvisioningFailed"))
          /\ phaseBFailed' = phaseBFailed \cup {PhaseBFailure(rec, TRUE)}
    /\ UNCHANGED <<masterConnection, now, stores, tenants, handles, connections, insertedAt,
                   nextTenantId, phaseAFailed,
                   node, closeAll, background>>

\* ------------------------------------------------------------ deleteTenant
\* deleteTenant is called (line 370) and sends Tenant.findOne({ tenantId }).
StartDeleteTenant(p, t) ==
    /\ Listening
    /\ procs[p].pc = "idle"
    /\ Goto(p, [Idle EXCEPT !.op = "deleteTenant", !.pc = "dt_find", !.tid = t])
    /\ UNCHANGED <<masterConnection, now, stores, tenants, invitations, handles,
                   connections, insertedAt, nextTenantId, phaseAFailed, phaseBFailed,
                   node, closeAll, background>>

\* The lookup answered (lines 372-376); step 1 calls closeTenantConnection
\* (line 381), which awaits connection.close() if the tenant is cached and
\* returns at once if not.
DtFind(p) ==
    LET rec == procs[p]
        found == {d \in tenants : d.tenantId = rec.tid}
    IN  /\ rec.pc = "dt_find"
        /\ \/ /\ Return(p, Err("deleteTenant", rec.tid, "RegistryError"))
              /\ UNCHANGED handles
           \/ /\ found = {}
              /\ Return(p, Err("deleteTenant", rec.tid, "NotFound"))
              /\ UNCHANGED handles
           \/ \E tenant \in found :
                LET next == [rec EXCEPT !.dbName = tenant.databaseName,
                                        !.oid = tenant._id]
                IN  IF Has(connections, rec.tid)
                    THEN /\ handles' = BeginClose(handles, Get(connections, rec.tid))
                         /\ Goto(p, [next EXCEPT !.pc = "ctc_close",
                                                 !.firstKey = rec.tid,
                                                 !.closing = Get(connections, rec.tid)])
                    ELSE /\ Goto(p, [next EXCEPT !.pc = "dt_connect"])
                         /\ UNCHANGED handles
        /\ UNCHANGED <<masterConnection, now, stores, tenants, invitations,
                       connections, insertedAt, nextTenantId, phaseAFailed, phaseBFailed,
                   node, closeAll, background>>

\* Step 2 (lines 384-390): the temporary connection to the tenant database
\* answered.
DtConnect(p) ==
    LET rec == procs[p] IN
    /\ rec.pc = "dt_connect"
    /\ \/ Return(p, Err("deleteTenant", rec.tid, "ConnectionFailed"))
       \/ Goto(p, [rec EXCEPT !.pc = "dt_drop"])
    /\ UNCHANGED <<masterConnection, now, stores, tenants, invitations, handles,
                   connections, insertedAt, nextTenantId, phaseAFailed, phaseBFailed,
                   node, closeAll, background>>

\* Variant of dropDatabase that leaves the database.
DestroyStore_Kept(ss, db) == ss

\* tempConnection.dropDatabase() (line 391)
DestroyStore(ss, db) == ss \ {db}

\* dropDatabase answered (line 391).
DtDrop(p) ==
    LET rec == procs[p] IN
    /\ rec.pc = "dt_drop"
    /\ \/ /\ Return(p, Err("deleteTenant", rec.tid, "DropFailed"))
          /\ UNCHANGED stores
       \/ /\ stores' = DestroyStore(stores, rec.dbName)
          /\ Goto(p, [rec EXCEPT !.pc = "dt_close_temp"])
    /\ UNCHANGED <<masterConnection, now, tenants, invitations, handles,
                   connections, insertedAt, nextTenantId, phaseAFailed, phaseBFailed,
                   node, closeAll, background>>

\* tempConnection.close() answered (line 392); step 3 sends tenant.deleteOne().
DtCloseTemp(p) ==
    LET rec == procs[p] IN
    /\ rec.pc = "dt_close_temp"
    /\ \/ Return(p, Err("deleteTenant", rec.tid, "CloseFailed"))
       \/ Goto(p, [rec EXCEPT !.pc = "dt_delete_record"])
    /\ UNCHANGED <<masterConnection, now, stores, tenants, invitations, handles,
                   connections, insertedAt, nextTenantId, phaseAFailed, phaseBFailed,
                   node, closeAll, background>>

\* Variant of the record deletion that deletes nothing.
RemoveTenantDoc_Kept(docs, id) == docs

\* tenant.deleteOne() (line 397): the document found, by its _id.
RemoveTenantDoc(docs, id) == {d \in docs : d._id # id}

\* Invitation.deleteMany({ tenantId: tenant._id }) (line 401)
RemoveInvitationsOf(docs, id) == {i \in docs : i.tenantId # id}

\* tenant.deleteOne() answered (line 397); step 4 sends deleteMany.
DtDeleteRecord(p) ==
    LET rec == procs[p] IN
    /\ rec.pc = "dt_delete_record"
    /\ \/ /\ Return(p, Err("deleteTenant", rec.tid, "RegistryError"))
          /\ UNCHANGED tenants
       \/ /\ tenants' = RemoveTenantDoc(tenants, rec.oid)
          /\ Goto(p, [rec EXCEPT !.pc = "dt_delete_invitations"])
    /\ UNCHANGED <<masterConnection, now, stores, invitations, handles,
                   connections, insertedAt, nextTenantId, phaseAFailed, phaseBFailed,
                   node, closeAll, background>>

\* deleteMany answered (line 401); deleteTenant returns.
DtDeleteInvitations(p) ==
    LET rec == procs[p] IN
    /\ rec.pc = "dt_delete_invitations"
    /\ \/ /\ Return(p, Err("deleteTenant", rec.tid, "RegistryError"))
          /\ UNCHANGED invitations
       \/ /\ invitations' = RemoveInvitationsOf(invitations, rec.oid)
          /\ Return(p, Ok("deleteTenant", rec.tid, 0))
    /\ UNCHANGED <<masterConnection, now, stores, tenants, handles,
                   connections, insertedAt, nextTenantId, phaseAFailed, phaseBFailed,
                   node, closeAll, background>>

\* ---------------------------------------------------------------- register
\* Time passes.
Tick ==
    /\ now < MaxTime
    /\ now' = now + 1
    /\ returned' = NoResult
    /\ UNCHANGED <<masterConnection, stores, tenants, invitations, handles, connections,
                   insertedAt, nextTenantId, procs, phaseAFailed, phaseBFailed,
                   node, closeAll, background>>

\* findValidByToken (Invitation.js 39-41): the query is built with the
\* Date.now() of the call.
findValidByToken(token, at) ==
    {i \in invitations : i.token = token /\ i.status = "pending" /\ i.expiresAt > at}

\* The virtual isExpired (Invitation.js 29): expiresAt < Date.now()
isExpired(invitation) == invitation.expiresAt < now

\* register is called (authService.js 29-32) and sends the query.
StartRegister(p, token) ==
    /\ Listening
    /\ procs[p].pc = "idle"
    /\ Goto(p, [Idle EXCEPT !.op = "register", !.pc = "reg_find",
                            !.token = token, !.at = now])
    /\ UNCHANGED <<masterConnection, now, stores, tenants, invitations, handles,
                   connections, insertedAt, nextTenantId, phaseAFailed, phaseBFailed,
                   node, closeAll, background>>

\* The query answered (line 33); a valid invitation leads to
\* getTenantConnection(invitation.tenantId.toString()) (lines 36-37).
RegFind(p) ==
    LET rec == procs[p]
        found == findValidByToken(rec.token, rec.at)
    IN  /\ rec.pc = "reg_find"
        /\ \/ /\ Return(p, Err("register", 0, "RegistryError"))
              /\ UNCHANGED <<connections, insertedAt>>
           \/ /\ \A i \in found : isExpired(i)
              /\ Return(p, Err("register", 0, "InvalidInvitation"))
              /\ UNCHANGED <<connections, insertedAt>>
           \/ \E invitation \in found :
                /\ ~isExpired(invitation)
                /\ GtcCall(p, [rec EXCEPT !.tid = invitation.tenantId,
                                          !.oid = invitation._id])
        /\ UNCHANGED <<masterConnection, now, stores, tenants, invitations, handles,
                       nextTenantId, phaseAFailed, phaseBFailed,
                   node, closeAll, background>>

\* --------------------------------------------------------- side operations
\* Variant of the failure handler that also drops the tenant's cache entry.
LastAccessCatch_Uncache(m, tenantId) == MapDelete(m, tenantId)

\* What a failed lastAccessedAt update does to the cache: the catch block of
\* updateTenantLastAccess (lines 492-494) and the .catch of its caller
\* (432-434) write a warning to the log and nothing else.
LastAccessCatch(m, tenantId) == m

\* Tenant.updateOne({ tenantId }, { lastAccessedAt: new Date() }): the
\* document with that tenantId, if there is one, gets the time of the update.
updateOne(stamps, tenantId) ==
    IF \E d \in tenants : d.tenantId = tenantId
    THEN [stamps EXCEPT ![tenantId] = now]
    ELSE stamps

\* updateTenantLastAccess(tenantId) settles (lines 485-495). Without a master
\* connection line 487 throws; the update itself may fail too.
updateTenantLastAccess(b) ==
    /\ b \in background.pending
    /\ b.op = "lastAccess"
    /\ \/ /\ masterConnection = "ready"
          /\ background' = [background EXCEPT
                               !.pending = @ \ {b},
                               !.lastAccessedAt = updateOne(@, b.tid)]
          /\ UNCHANGED <<connections, insertedAt>>
       \/ /\ background' = [background EXCEPT !.pending = @ \ {b},
                                              !.failed = @ \cup {b}]
          /\ connections' = LastAccessCatch(connections, b.tid)
          /\ insertedAt' = Restamp(connections', 0)
    /\ returned' = NoResult
    /\ UNCHANGED <<masterConnection, now, stores, tenants, invitations, handles,
                   nextTenantId, procs, phaseAFailed, phaseBFailed, node, closeAll>>

\* sendInvitationEmail(invitation, tenant) settles (tenantService.js 467-487):
\* resolved, or rejected into the .catch of createTenant (149-151), which
\* writes the error to the log.
sendInvitationEmail(b) ==
    /\ b \in background.pending
    /\ b.op = "invitationEmail"
    /\ \/ background' = [background EXCEPT !.pending = @ \ {b}]
       \/ background' = [background EXCEPT !.pending = @ \ {b},
                                           !.failed = @ \cup {b}]
    /\ returned' = NoResult
    /\ UNCHANGED <<masterConnection, now, stores, tenants, invitations, handles,
                   connections, insertedAt, nextTenantId, procs, phaseAFailed,
                   phaseBFailed, node, closeAll>>

\* The promises nobody awaits, as they can be named by an action.
SideOps ==
    [op : {"lastAccess", "invitationEmail"}, tid : TenantIds, conn : 0..MaxHandles]

\* ---------------------------------------------------------------- shutdown
\* process.exit has not been called.
Running == node.exit = "running"

\* Variant of shutdown that arms no grace timer.
ArmTimer_None(n) == n

\* setTimeout(() => process.exit(1), 30000) (authService.js 147-150)
ArmTimer(n) == n + 1

\* shutdown(signal) (authService.js 129-151): server.close(callback) stops the
\* server accepting and registers the callback for its 'close' event, and the
\* grace timer is armed.
Signal ==
    /\ Running
    /\ node.server # "off"
    /\ node.signals < MaxSignals
    /\ node' = [node EXCEPT !.server = IF @ = "listening" THEN "closing" ELSE @,
                            !.signals = @ + 1,
                            !.timers = ArmTimer(@)]
    /\ returned' = NoResult
    /\ UNCHANGED <<masterConnection, now, stores, tenants, invitations, handles,
                   connections, insertedAt, nextTenantId, procs, phaseAFailed,
                   phaseBFailed, closeAll, background>>

\* The grace timer fires (authService.js 147-150): process.exit(1).
GraceTimer ==
    /\ Running
    /\ node.timers > 0
    /\ node' = [node EXCEPT !.exit = "exit1"]
    /\ returned' = NoResult
    /\ UNCHANGED <<masterConnection, now, stores, tenants, invitations, handles,
                   connections, insertedAt, nextTenantId, procs, phaseAFailed,
                   phaseBFailed, closeAll, background>>

\* closeAllConnections from the place of its iterator to its next await (lines
\* 529-541). The for-of loop takes the first entry inserted after the one it
\* visited last and awaits its close; when there is none it clears the Map
\* and awaits the close of the master connection, if there is one. The result
\* is the call's record with the cache and the handles it leaves.
CaAdvance(conns, hs, cursor) ==
    LET later == {i \in 1..Len(conns) : insertedAt[conns[i].key] > cursor}
    IN  IF later # {}
        THEN LET i == CHOOSE i \in later : \A j \in later : i <= j
             IN  [pc |-> "ca_close", cursor |-> insertedAt[conns[i].key],
                  closing |-> conns[i].conn, connections |-> conns,
                  handles |-> BeginClose(hs, conns[i].conn)]
        ELSE [pc |-> IF masterConnection # "null" THEN "ca_master" ELSE "done",
              cursor |-> cursor, closing |-> 0, connections |-> <<>>,
              handles |-> hs]

\* The call's record without the cache and the handles.
CaRecord(r) == [pc |-> r.pc, cursor |-> r.cursor, closing |-> r.closing]

\* The callbacks of server.close that have not run yet.
PendingCallbacks == {k \in 1..node.signals : closeAll[k].pc = "idle"}

\* The server's 'close' event (authService.js 132-137): the registered
\* callbacks run one after the other, each up to the first await of its
\* closeAllConnections call. Each starts its iterator at the first entry, so
\* the second finds what the first found: the same handle, now closing, or
\* the empty Map.
HttpClosed ==
    LET r == CaAdvance(connections, handles, 0)
    IN  /\ Running
        /\ node.server \in {"closing", "closed"}
        /\ PendingCallbacks # {}
        /\ node' = [node EXCEPT !.server = "closed"]
        /\ closeAll' = [k \in 1..MaxSignals |->
                          IF k \in PendingCallbacks THEN CaRecord(r) ELSE closeAll[k]]
        /\ connections' = r.connections
        /\ handles' = r.handles
        /\ insertedAt' = Restamp(connections', 0)
        /\ returned' = NoResult
        /\ UNCHANGED <<masterConnection, now, stores, tenants, invitations,
                       nextTenantId, procs, phaseAFailed, phaseBFailed, background>>

\* closeAllConnections returns or throws into the callback of shutdown
\* (authService.js 137-143), which ends the process.
CaFinish(k, ok) ==
    /\ returned' = IF ok THEN Ok("closeAll", 0, 0) ELSE Err("closeAll", 0, "CloseFailed")
    /\ node' = [node EXCEPT !.exit = IF ok THEN "exit0" ELSE "exit1"]

\* connection.close() answered inside the loop of closeAllConnections (line
\* 531). A close that succeeds runs the handle's 'disconnected' handler and
\* the loop goes on; a close that throws leaves the loop: the catch block
\* logs and rethrows (lines 545-548).
CaClose(k) ==
    LET rec == closeAll[k]
        closed == [handles EXCEPT ![rec.closing].state = "closed"]
        r == CaAdvance(OnDisconnected(connections, rec.closing), closed, rec.cursor)
    IN  /\ Running
        /\ rec.pc = "ca_close"
        /\ \/ /\ handles' = r.handles
              /\ connections' = r.connections
              /\ insertedAt' = Restamp(connections', 0)
              /\ closeAll' = [closeAll EXCEPT ![k] = CaRecord(r)]
              /\ IF r.pc = "done"
                 THEN CaFinish(k, TRUE)
                 ELSE /\ returned' = NoResult
                      /\ UNCHANGED node
           \/ /\ closeAll' = [closeAll EXCEPT ![k].pc = "done"]
              /\ CaFinish(k, FALSE)
              /\ UNCHANGED <<handles, connections, insertedAt>>
        /\ UNCHANGED <<masterConnection, now, stores, tenants, invitations,
                       nextTenantId, procs, phaseAFailed, phaseBFailed, background>>

\* this.masterConnection.close() answered (lines 537-541).
CaMaster(k) ==
    LET rec == closeAll[k] IN
    /\ Running
    /\ rec.pc = "ca_master"
    /\ closeAll' = [closeAll EXCEPT ![k].pc = "done"]
    /\ \/ /\ masterConnection' = "null"
          /\ CaFinish(k, TRUE)
       \/ /\ UNCHANGED masterConnection
          /\ CaFinish(k, FALSE)
    /\ UNCHANGED <<now, stores, tenants, invitations, handles, connections,
                   insertedAt, nextTenantId, procs, phaseAFailed, phaseBFailed,
                   background>>

\* --------------------------------------------------------- specifications
\* Three views of the same program, each small enough to explore in full.

\* The orchestrator under concurrency: every tenant is registered and active,
\* two callers resolve and evict, handles drop.
InitCache == InitWith(MaxTenants, MaxTenants + 1)

NextCache ==
    \/ StartServer
    \/ \E p \in Procs, t \in TenantIds : StartResolve(p, t)
    \/ \E p \in Procs : GtcMetadata(p)
    \/ \E p \in Procs : GtcOpen(p)
    \/ \E p \in Procs, t \in TenantIds : StartEvict(p, t)
    \/ \E p \in Procs : CtcClose(p)
    \/ \E c \in 1..MaxHandles : Disconnected(c)
    \/ \E t \in TenantIds, u \in IdentityUpdates : UpdateTenant(t, u)

SpecCache == InitCache /\ [][NextCache]_vars

\* The provisioning saga: createTenant with every step able to fail, next to
\* resolves.
NextSaga ==
    \/ StartServer
    \/ \E p \in Procs, t \in TenantIds : StartResolve(p, t)
    \/ \E p \in Procs : GtcMetadata(p)
    \/ \E p \in Procs : GtcOpen(p)
    \/ \E p \in Procs : CtcClose(p)
    \/ \E p \in Procs, d \in TenantData : StartCreateTenant(p, d)
    \/ \E p \in Procs : CtValidate(p)
    \/ \E p \in Procs : CtSubdomain(p)
    \/ \E p \in Procs : CtInvitation(p)
    \/ \E p \in Procs : CtSaveTenant(p)
    \/ \E p \in Procs : CtSaveInvitation(p)
    \/ \E p \in Procs : CtCommit(p)
    \/ \E p \in Procs : CtSchema(p)
    \/ \E p \in Procs : CtCompTenant(p)
    \/ \E p \in Procs : CtCompInvitation(p)

SpecSaga == Init /\ [][NextSaga]_vars

\* The tenant lifecycle next to resolves: operators suspend, activate and
\* update the registered tenants while a caller resolves them.
NextLife ==
    \/ StartServer
    \/ \E t \in TenantIds : StartResolve(2, t)
    \/ \E p \in Procs : GtcMetadata(p)
    \/ \E p \in Procs : GtcOpen(p)
    \/ \E p \in Procs : CtcClose(p)
    \/ \E t \in TenantIds : SuspendTenant(t)
    \/ \E t \in TenantIds : ActivateTenant(t)
    \/ \E t \in TenantIds, u \in Updates : UpdateTenant(t, u)

SpecLife == InitCache /\ [][NextLife]_vars

\* One caller at a time: resolves follow one another.
NextSeq ==
    \/ StartServer
    \/ \E t \in TenantIds : StartResolve(1, t)
    \/ GtcMetadata(1)
    \/ GtcOpen(1)
    \/ CtcClose(1)

SpecSeq == InitCache /\ [][NextSeq]_vars

\* Concurrent provisioning: two callers run createTenant over an empty
\* registry, with two tenant ids left to hand out (the cache never fills).
InitCreate == InitWith(0, MaxTenants - 1)

NextCreate ==
    \/ StartServer
    \/ \E p \in Procs, d \in TenantData : StartCreateTenant(p, d)
    \/ \E p \in Procs : CtValidate(p)
    \/ \E p \in Procs : CtSubdomain(p)
    \/ \E p \in Procs : CtInvitation(p)
    \/ \E p \in Procs : CtSaveTenant(p)
    \/ \E p \in Procs : CtSaveInvitation(p)
    \/ \E p \in Procs : CtCommit(p)
    \/ \E p \in Procs : GtcMetadata(p)
    \/ \E p \in Procs : GtcOpen(p)
    \/ \E p \in Procs : CtSchema(p)
    \/ \E p \in Procs : CtCompTenant(p)
    \/ \E p \in Procs : CtCompInvitation(p)

SpecCreate == InitCreate /\ [][NextCreate]_vars

\* Invitations over time: one caller provisions tenants, another registers
\* with invitation tokens, and the clock advances.
Tokens == {InvitationOid(n) : n \in TenantIds}

NextInvite ==
    \/ StartServer
    \/ Tick
    \/ \E d \in TenantData : StartCreateTenant(1, d)
    \/ CtValidate(1)
    \/ CtSubdomain(1)
    \/ CtInvitation(1)
    \/ CtSaveTenant(1)
    \/ CtSaveInvitation(1)
    \/ CtCommit(1)
    \/ CtSchema(1)
    \/ CtCompTenant(1)
    \/ CtCompInvitation(1)
    \/ \E p \in Procs : GtcMetadata(p)
    \/ \E p \in Procs : GtcOpen(p)
    \/ \E token \in Tokens : StartRegister(2, token)
    \/ RegFind(2)

SpecInvite == InitCreate /\ [][NextInvite]_vars

\* Teardown: one caller deletes tenants while another resolves them; every
\* registered tenant still has the invitation it was created with.
InitDelete ==
    InitRegistry(SeedTenants, SeedTenants + 1,
                 {SeedInvitation(n) : n \in 1..SeedTenants})

NextDelete ==
    \/ StartServer
    \/ \E t \in TenantIds : StartResolve(2, t)
    \/ \E p \in Procs : GtcMetadata(p)
    \/ \E p \in Procs : GtcOpen(p)
    \/ \E p \in Procs : CtcClose(p)
    \/ \E t \in TenantIds : StartDeleteTenant(1, t)
    \/ DtFind(1)
    \/ DtConnect(1)
    \/ DtDrop(1)
    \/ DtCloseTemp(1)
    \/ DtDeleteRecord(1)
    \/ DtDeleteInvitations(1)

SpecDelete == InitDelete /\ [][NextDelete]_vars

\* Provisioning next to traffic: one caller runs createTenant while another
\* resolves the registered tenants and the clock advances.
NextProvision ==
    \/ StartServer
    \/ Tick
    \/ \E d \in TenantData : StartCreateTenant(1, d)
    \/ CtValidate(1)
    \/ CtSubdomain(1)
    \/ CtInvitation(1)
    \/ CtSaveTenant(1)
    \/ CtSaveInvitation(1)
    \/ CtCommit(1)
    \/ CtSchema(1)
    \/ CtCompTenant(1)
    \/ CtCompInvitation(1)
    \/ \E t \in TenantIds : StartResolve(2, t)
    \/ \E p \in Procs : GtcMetadata(p)
    \/ \E p \in Procs : GtcOpen(p)
    \/ \E p \in Procs : CtcClose(p)

SpecProvision == Init /\ [][NextProvision]_vars

\* Input handling: one caller runs createTenant with request bodies of any
\* shape over an empty registry.
NextInput ==
    \/ StartServer
    \/ \E d \in AnyTenantData : StartCreateTenant(1, d)
    \/ CtValidate(1)
    \/ CtSubdomain(1)
    \/ CtInvitation(1)
    \/ CtSaveTenant(1)
    \/ CtSaveInvitation(1)
    \/ CtCommit(1)
    \/ GtcMetadata(1)
    \/ GtcOpen(1)
    \/ CtSchema(1)
    \/ CtCompTenant(1)
    \/ CtCompInvitation(1)

SpecInput == InitCreate /\ [][NextInput]_vars

\* Shutdown: a caller resolves tenants, signals arrive, the server closes and
\* closeAllConnections runs; nothing runs once the process has exited.
NextShutdown ==
    \/ StartServer
    \/ Running /\ \E t \in TenantIds : StartResolve(1, t)
    \/ Running /\ GtcMetadata(1)
    \/ Running /\ GtcOpen(1)
    \/ Running /\ CtcClose(1)
    \/ Signal
    \/ HttpClosed
    \/ \E k \in 1..MaxSignals : CaClose(k)
    \/ \E k \in 1..MaxSignals : CaMaster(k)
    \/ GraceTimer

SpecShutdown == InitCache /\ [][NextShutdown]_vars

\* The same with the timer of Node: an armed timer fires.
SpecShutdownFair == SpecShutdown /\ WF_vars(GraceTimer)

\* The registry connection drops and comes back while one caller resolves.
NextMaster ==
    \/ StartServer
    \/ \E t \in TenantIds : StartResolve(1, t)
    \/ GtcMetadata(1)
    \/ GtcOpen(1)
    \/ CtcClose(1)
    \/ MasterDisconnected
    \/ MasterReconnected

SpecMaster == InitCache /\ [][NextMaster]_vars

\* Eviction under load: one caller resolves the last tenant while another
\* keeps resolving the other tenants, evicted ones again.
NextEviction ==
    \/ StartServer
    \/ StartResolve(1, MaxTenants)
    \/ \E t \in TenantIds \ {MaxTenants} : StartResolve(2, t)
    \/ \E p \in Procs : GtcMetadata(p)
    \/ \E p \in Procs : GtcOpenUpTo(p, MaxChurn)
    \/ \E p \in Procs : CtcClose(p)

SpecEviction == InitCache /\ [][NextEviction]_vars

\* Side operations: one caller creates tenants and resolves them while the
\* lastAccessedAt updates and the invitation e-mails settle in the background.
NextSide ==
    \/ StartServer
    \/ Tick
    \/ \E d \in TenantData : StartCreateTenant(1, d)
    \/ CtValidate(1)
    \/ CtSubdomain(1)
    \/ CtInvitation(1)
    \/ CtSaveTenant(1)
    \/ CtSaveInvitation(1)
    \/ CtCommit(1)
    \/ CtSchema(1)
    \/ CtCompTenant(1)
    \/ CtCompInvitation(1)
    \/ \E t \in TenantIds : StartResolve(1, t)
    \/ GtcMetadata(1)
    \/ GtcOpen(1)
    \/ CtcClose(1)
    \/ \E b \in SideOps : updateTenantLastAccess(b)
    \/ \E b \in SideOps : sendInvitationEmail(b)

SpecSide == Init /\ [][NextSide]_vars

\* ------------------------------------------------------------- properties

\* C1 (tenant isolation): the handle cached under tenant t, and the handle a
\* resolve(t) returns, is opened against the store that t's own record names
\* and that no other tenant's record names.
C1_TenantIsolation ==
    LET OwnStore(t, c) ==
            \A d \in tenants : (d.tenantId = t) <=> (d.databaseName = handles[c].db)
    IN  /\ \A i \in 1..Len(connections) :
              OwnStore(connections[i].key, connections[i].conn)
        /\ (returned.op = "resolve" /\ returned.status = "ok")
              => OwnStore(returned.tid, returned.conn)

\* Two tenants are cached, each with its own handle, and a resolve has just
\* returned the newer one.
C1_Witness ==
    /\ Len(connections) = 2
    /\ returned.op = "resolve" /\ returned.status = "ok"
    /\ returned.conn = Len(handles)
    /\ \E i, j \in 1..Len(connections) :
          handles[connections[i].conn].db # handles[connections[j].conn].db

\* C2 as stated: a resolve(t) returns no handle while t's record has
\* isActive = FALSE.
C2_NoHandleWhileInactive ==
    (returned.op = "resolve" /\ returned.status = "ok")
        => ~ \E d \in tenants : d.tenantId = returned.tid /\ ~d.isActive

\* C2 as the code has it: a resolve that missed the cache goes on to open a
\* handle only if the record was active when the registry was read.
C2_GateAtLookup ==
    [][\A p \in Procs :
          (procs[p].pc = "gtc_meta" /\ procs'[p].pc = "gtc_open")
              => \E d \in tenants : d.tenantId = procs[p].tid /\ d.isActive]_vars

\* A resolve of a tenant whose record is inactive has just been refused.
C2_Witness ==
    /\ returned.op = "resolve" /\ returned.status = "error"
    /\ returned.error \in {"NotFound", "TenantInactive"}
    /\ \E d \in tenants : d.tenantId = returned.tid /\ ~d.isActive

\* C3 as stated: an inactive tenant is told apart from a missing one, so a
\* resolve fails with NotFound only when the registry has no record of the
\* tenant.
C3_InactiveIsNotNotFound ==
    (returned.op = "resolve" /\ returned.error = "NotFound")
        => ~ \E d \in tenants : d.tenantId = returned.tid

\* C4 as stated: once capacity + k distinct tenants have been resolved one
\* after another, the cache holds exactly capacity entries and none of the
\* k tenants resolved first.
C4_CapacityAfterSequentialResolves ==
    LET n == Len(handles)
        k == n - maxCachedConnections
    IN  (/\ \A p \in Procs : procs[p].pc = "idle"
         /\ k >= 1
         /\ \A i, j \in 1..n : i # j => handles[i].tenantId # handles[j].tenantId)
        => /\ Len(connections) = maxCachedConnections
           /\ \A i \in 1..k : ~Has(connections, handles[i].tenantId)

\* C5 (insertion-order eviction): the key a resolve picks for eviction is the
\* one that entered the cache first among the keys present, and a cache hit
\* leaves the cache and its order as they were.
C5_EvictsEarliestInserted ==
    [][/\ \A p \in Procs :
            (procs[p].pc = "gtc_open" /\ procs'[p].pc = "ctc_close")
                => \A k \in Keys(connections') :
                      insertedAt'[procs'[p].firstKey] <= insertedAt'[k]
       /\ (returned'.op = "resolve" /\ returned'.status = "ok" /\ procs' = procs)
            => (connections' = connections /\ insertedAt' = insertedAt)]_vars

\* A resolve that filled the cache beyond its limit is evicting the key that
\* entered the cache first.
C5_Witness ==
    \E p \in Procs :
        /\ procs[p].pc = "ctc_close" /\ procs[p].op = "resolve"
        /\ Len(connections) = maxCachedConnections + 1
        /\ procs[p].firstKey = connections[1].key
        /\ insertedAt[procs[p].firstKey] = 1

\* C6 as stated: concurrent resolves of one tenant open one handle, so no
\* tenant ever has two connected handles.
C6_SingleFlight ==
    \A c1, c2 \in 1..Len(handles) :
        (c1 # c2 /\ handles[c1].tenantId = handles[c2].tenantId)
            => ~(IsReady(c1) /\ IsReady(c2))

\* C7 as stated: a handle leaves the cache before its close begins, so the
\* cache never holds a handle that is closing or closed.
C7_RemovedBeforeClose ==
    \A i \in 1..Len(connections) :
        handles[connections[i].conn].state \notin {"closing", "closed"}

\* C8 (Phase A is atomic): a createTenant that failed before its commit left
\* no tenant record, no invitation record and no handle of its own, and the
\* step at which it failed changed neither the registry nor the handles.
C8_PhaseAAtomic ==
    /\ [](\A f \in phaseAFailed :
            /\ ~ \E d \in tenants : d.tenantId = f.tid
            /\ ~ \E i \in invitations : i._id = InvitationOid(f.tid)
            /\ ~ \E c \in 1..Len(handles) : handles[c].tenantId = f.tid)
    /\ [][(/\ returned'.op = "createTenant" /\ returned'.status = "error"
           /\ returned'.step \in {"validate", "subdomain", "invitation",
                                   "saveTenant", "saveInvitation", "commit"})
            => UNCHANGED <<tenants, invitations, handles, connections>>]_vars

\* A creation failed at its commit, after both documents were written in the
\* transaction.
C8_Witness ==
    /\ returned.op = "createTenant" /\ returned.step = "commit"
    /\ \E f \in phaseAFailed : f.tid = returned.tid /\ f.step = "commit"

\* C9 as stated: after a Phase B failure the registry holds neither record of
\* the attempt.
C9_NoRecordAfterPhaseBFailure ==
    \A f \in phaseBFailed :
        /\ ~ \E d \in tenants : d.tenantId = f.tid
        /\ ~ \E i \in invitations : i._id = InvitationOid(f.tid)

\* C9 as the code has it: when Phase B failed and both compensating deletes
\* went through (createTenant threw ProvisioningFailed), the registry holds
\* neither record of the attempt.
C9_NoRecordAfterCompensation ==
    \A f \in phaseBFailed :
        f.compensated
            => /\ ~ \E d \in tenants : d.tenantId = f.tid
               /\ ~ \E i \in invitations : i._id = InvitationOid(f.tid)

\* A creation whose schema initialisation failed has just thrown
\* ProvisioningFailed.
C9_Witness ==
    /\ returned.op = "createTenant" /\ returned.error = "ProvisioningFailed"
    /\ \E f \in phaseBFailed :
          f.tid = returned.tid /\ f.compensated /\ f.cause = "SchemaInitFailed"

\* C10 as stated: a resolve called after a Phase B failure that was
\* compensated is not served a handle from the cache (the registry no longer
\* has the record, so only the cache could serve one).
C10_FailedTenantUnresolvable ==
    [][(/\ procs' = procs
        /\ returned'.op = "resolve"
        /\ \E f \in phaseBFailed : f.tid = returned'.tid /\ f.compensated)
            => returned'.status = "error"]_vars

\* C11 as stated: a createTenant that reaches its subdomain check or its
\* tenant write while a tenant with its normalized subdomain is registered, or
\* is being written by a concurrent call, fails with Conflict (when the
\* registry answers at all) and changes no record.
C11_DuplicateSubdomainConflict ==
    [][\A p \in Procs :
          (/\ procs[p].op = "createTenant"
           /\ procs[p].pc \in {"ct_subdomain", "ct_save_tenant"}
           /\ procs'[p].pc = "idle"
           /\ \E d \in tenants \cup StagedElsewhere(p) : d.subdomain = procs[p].subdomain
           /\ returned'.error # "RegistryError")
              => /\ returned'.error = "Conflict"
                 /\ UNCHANGED <<tenants, invitations>>]_vars

\* C12 (unique identity fields): no two tenant records share a tenantId, a
\* subdomain or a databaseName, however concurrent createTenant calls
\* interleave.
C12_UniqueIdentity ==
    \A d1, d2 \in tenants :
        d1 # d2 => /\ d1.tenantId # d2.tenantId
                   /\ d1.subdomain # d2.subdomain
                   /\ d1.databaseName # d2.databaseName

\* A tenant is registered and a concurrent createTenant with the same
\* subdomain, which had passed its subdomain check, has just been rejected by
\* the index.
C12_Witness ==
    /\ returned.op = "createTenant" /\ returned.step = "saveTenant"
    /\ returned.error = "DuplicateKey"
    /\ tenants # {}

\* C13 as stated: no email has two pending invitations.
C13_OnePendingPerEmail ==
    \A i1, i2 \in invitations :
        (i1.email = i2.email /\ i1.status = "pending" /\ i2.status = "pending")
            => i1 = i2

\* C14 as stated: a pending invitation whose expiresAt has passed counts
\* nowhere. register goes on only with an invitation that is pending and not
\* past its expiresAt, and createTenant refuses an email for its pending
\* invitation only if one that is not past its expiresAt exists.
C14_ExpiredInvitationIsInvalid ==
    [][/\ \A p \in Procs :
            (procs[p].pc = "reg_find" /\ procs'[p].pc \notin {"reg_find", "idle"})
                => \E i \in invitations :
                      /\ i.token = procs[p].token
                      /\ i.status = "pending" /\ i.expiresAt >= now
       /\ \A p \in Procs :
            (/\ procs[p].pc = "ct_invitation" /\ procs'[p].pc = "idle"
             /\ returned'.error = "Conflict")
                => \E i \in invitations :
                      /\ i.email = procs[p].input.adminEmail
                      /\ i.status = "pending" /\ i.expiresAt >= now]_vars

\* C15 (idempotent deletion): a deleteTenant(t) that succeeds leaves no record
\* of t, and a deleteTenant(t) that finds no record of t fails with NotFound
\* (when the registry answers at all) and changes neither the registry nor
\* the cache, the handles or the stores.
C15_IdempotentDeletion ==
    [][/\ (returned'.op = "deleteTenant" /\ returned'.status = "ok")
            => ~ \E d \in tenants' : d.tenantId = returned'.tid
       /\ \A p \in Procs :
            (/\ procs[p].pc = "dt_find" /\ procs'[p].pc = "idle"
             /\ ~ \E d \in tenants : d.tenantId = procs[p].tid
             /\ returned'.error # "RegistryError")
                => /\ returned'.error = "NotFound"
                   /\ UNCHANGED <<tenants, invitations, connections, handles, stores>>]_vars

\* A second deleteTenant of a tenant that was registered, and whose record,
\* invitations and store the first one removed, has just failed with NotFound.
C15_Witness ==
    /\ returned.op = "deleteTenant" /\ returned.error = "NotFound"
    /\ returned.tid \in 1..SeedTenants
    /\ generateDatabaseName(returned.tid) \notin stores
    /\ ~ \E i \in invitations : i.tenantId = TenantOid(returned.tid)

\* C16 (order of the teardown): when deleteTenant destroys the store, the
\* handle it found cached for the tenant is closed and out of the cache; when
\* it deletes the record, the store is destroyed; and when the destruction
\* failed, the record and its invitations are still there.
C16_TeardownOrder ==
    /\ [][\A p \in Procs :
            /\ (procs[p].pc = "dt_drop" /\ procs'[p].pc = "dt_close_temp")
                  => \/ procs[p].closing = 0
                     \/ /\ handles[procs[p].closing].state = "closed"
                        /\ \A i \in 1..Len(connections) :
                              connections[i].conn # procs[p].closing
            /\ (procs[p].pc = "dt_delete_record" /\ tenants' # tenants)
                  => procs[p].dbName \notin stores]_vars
    /\ []((/\ returned.op = "deleteTenant"
           /\ returned.error \in {"ConnectionFailed", "DropFailed"})
            => \E d \in tenants :
                  /\ d.tenantId = returned.tid
                  /\ \E i \in invitations : i.tenantId = d._id)

\* A deleteTenant of a tenant whose handle was cached has gone through: the
\* handle is closed, the store and the record are gone.
C16_Witness ==
    /\ returned.op = "deleteTenant" /\ returned.status = "ok"
    /\ \E c \in 1..Len(handles) :
          handles[c].tenantId = returned.tid /\ handles[c].state = "closed"
    /\ generateDatabaseName(returned.tid) \notin stores

\* C17 as stated: when deleteTenant(t) has returned, the record of t exists or
\* no invitation refers to t.
C17_NoOrphanInvitations ==
    (returned.op = "deleteTenant")
        => \/ \E d \in tenants : d.tenantId = returned.tid
           \/ ~ \E i \in invitations : i.tenantId = TenantOid(returned.tid)

\* C18 as stated: in every tenant record isActive agrees with status: active
\* and trial go with isActive = TRUE, suspended, cancelled and expired with
\* isActive = FALSE.
C18_IsActiveAgreesWithStatus ==
    \A d \in tenants :
        /\ d.status \in {"active", "trial"} => d.isActive
        /\ d.status \in {"suspended", "cancelled", "expired"} => ~d.isActive

\* C19 as stated: the status of a tenant record changes only along the edges
\* of the lifecycle.
C19_StatusFollowsLifecycle ==
    [][\A d \in tenants, e \in tenants' :
          (d._id = e._id /\ d.status # e.status)
              => <<d.status, e.status>> \in
                    { <<"trial", "active">>, <<"active", "suspended">>,
                      <<"suspended", "active">>, <<"active", "cancelled">>,
                      <<"trial", "cancelled">>, <<"suspended", "cancelled">>,
                      <<"trial", "expired">> }]_vars

\* C20 as stated: no call changes the tenantId, the subdomain or the
\* databaseName of a tenant record.
C20_IdentityImmutable ==
    [][\A d \in tenants, e \in tenants' :
          d._id = e._id => /\ d.tenantId = e.tenantId
                           /\ d.subdomain = e.subdomain
                           /\ d.databaseName = e.databaseName]_vars

\* C21 (evict is idempotent): an evict of a key that is not cached returns at
\* once without an error and changes neither the cache nor any handle or
\* record, it never starts a close; and after an evict that succeeded the key
\* is not cached, so a second evict of it is that no-op.
C21_EvictIdempotent ==
    /\ [][/\ (returned'.op = "evict" /\ procs' = procs)
                => /\ returned'.status = "ok"
                   /\ ~Has(connections, returned'.tid)
                   /\ UNCHANGED <<connections, insertedAt, handles, tenants,
                                   invitations, stores>>
           /\ \A p \in Procs :
                (/\ procs[p].pc = "idle" /\ procs'[p].op = "evict"
                 /\ procs'[p].pc # "idle")
                    => Has(connections, procs'[p].tid)]_vars
    /\ []((returned.op = "evict" /\ returned.status = "ok")
            => ~Has(connections, returned.tid))

\* An evict of a tenant that never had a handle has just returned while
\* another tenant is cached.
C21_Witness ==
    /\ returned.op = "evict" /\ returned.status = "ok"
    /\ \A c \in 1..Len(handles) : handles[c].tenantId # returned.tid
    /\ Len(connections) > 0

\* C22 as stated: closeAllConnections raises no error to its caller, and when
\* it returns the cache is empty and the master connection is released.
C22_CloseAllNeverFails ==
    (returned.op = "closeAll")
        => /\ returned.status = "ok"
           /\ connections = <<>>
           /\ masterConnection = "null"

\* C23 (shutdown terminates): once a shutdown signal has arrived the process
\* exits, whether or not the HTTP server or a handle ever finishes closing; and
\* a closeAllConnections call starts only when the HTTP server has closed.
C23_ShutdownTerminates ==
    /\ (node.signals > 0) ~> (node.exit # "running")
    /\ [][\A k \in 1..MaxSignals :
            (closeAll[k].pc = "idle" /\ closeAll'[k].pc # "idle")
                => (node.server # "listening" /\ node'.server = "closed")]_vars

\* The grace timer has ended the process while the HTTP server was still
\* waiting for its connections to end.
C23_Witness ==
    /\ node.exit = "exit1"
    /\ node.server = "closing"
    /\ \A k \in 1..MaxSignals : closeAll[k].pc = "idle"

\* C24 (a failed resolve has no side effect): no step of a resolve changes a
\* tenant record, and when resolve(t) fails, whatever the failure, the failing
\* step opens no handle and the cache has no entry for t.
C24_FailedResolveChangesNothing ==
    [][/\ \A p \in Procs :
            (procs'[p] # procs[p] /\ "resolve" \in {procs[p].op, procs'[p].op})
                => tenants' = tenants
       /\ (returned'.op = "resolve" /\ returned'.status = "error")
            => /\ tenants' = tenants
               /\ handles' = handles
               /\ ~Has(connections', returned'.tid)]_vars

\* A resolve of an active tenant has just failed because its store could not
\* be reached.
C24_Witness ==
    /\ returned.op = "resolve" /\ returned.error = "ConnectionFailed"
    /\ \E d \in tenants :
          d.tenantId = returned.tid /\ d.isActive /\ d.status = "active"
    /\ ~Has(connections, returned.tid)

\* C25 (ProvisioningFailed is safe to retry): when createTenant throws
\* ProvisioningFailed neither record of the attempt is in the registry, and a
\* later createTenant is refused with Conflict only for a record that no
\* attempt that ended with ProvisioningFailed wrote.
C25_RetryAfterProvisioningFailed ==
    /\ []((returned.op = "createTenant" /\ returned.error = "ProvisioningFailed")
            => /\ ~ \E d \in tenants : d.tenantId = returned.tid
               /\ ~ \E i \in invitations : i._id = InvitationOid(returned.tid))
    /\ [][\A p \in Procs :
            (/\ procs[p].pc \in {"ct_subdomain", "ct_invitation"}
             /\ procs'[p].pc = "idle"
             /\ returned'.error = "Conflict")
                => \/ \E d \in tenants :
                        /\ d.subdomain = procs[p].subdomain
                        /\ \A f \in phaseBFailed :
                              f.compensated => f.tid # d.tenantId
                   \/ \E i \in invitations :
                        /\ i.email = procs[p].input.adminEmail
                        /\ i.status = "pending"
                        /\ \A f \in phaseBFailed :
                              f.compensated => i._id # InvitationOid(f.tid)]_vars

\* A createTenant has just succeeded with the subdomain and the admin e-mail
\* of an earlier attempt that ended with ProvisioningFailed.
C25_Witness ==
    /\ returned.op = "createTenant" /\ returned.status = "ok"
    /\ \E f \in phaseBFailed, d \in tenants :
          /\ f.compensated /\ f.tid # returned.tid
          /\ d.tenantId = returned.tid
          /\ d.subdomain = sanitizeSubdomain(f.input.subdomain)
          /\ d.primaryAdminEmail = f.input.adminEmail

\* C26 (validation fails without side effects): a createTenant whose
\* organizationName, subdomain or adminEmail is empty, or whose subdomain is no
\* DNS label once normalized ("!" normalizes to the empty string, "-a" starts
\* with a hyphen), fails with ValidationError at its validation and changes
\* neither the registry nor the cache, the handles or the stores.
C26_ValidationErrorNoSideEffect ==
    [][\A p \in Procs :
          (/\ procs[p].pc = "ct_validate"
           /\ procs'[p] # procs[p]
           /\ \/ procs[p].input.organizationName = ""
              \/ procs[p].input.subdomain = <<>>
              \/ procs[p].input.adminEmail = ""
              \/ procs[p].input.subdomain \in { <<"!">>, <<"-", "a">> })
              => /\ procs'[p].pc = "idle"
                 /\ returned'.op = "createTenant"
                 /\ returned'.error = "ValidationError"
                 /\ UNCHANGED <<tenants, invitations, connections, handles, stores>>]_vars

\* A createTenant has just failed with ValidationError while a tenant is
\* registered and its handle cached.
C26_Witness ==
    /\ returned.op = "createTenant" /\ returned.error = "ValidationError"
    /\ tenants # {}
    /\ Len(connections) > 0

\* C28 as stated: the tenant record createTenant commits for the subdomain
\* "Acme Corp!" has the subdomain "acme-corp".
C28_AcmeCorpNormalized ==
    [][\A p \in Procs :
          (/\ procs[p].pc = "ct_commit"
           /\ procs[p].input.subdomain
                 = <<"A", "c", "m", "e", " ", "C", "o", "r", "p", "!">>
           /\ tenants' # tenants)
              => \E d \in tenants' \ tenants :
                    d.subdomain = <<"a", "c", "m", "e", "-", "c", "o", "r", "p">>]_vars

C29_SideFailureContained ==
    [][/\ \A b \in background.pending :
             (b \notin background'.pending /\ b \in background'.failed)
                => /\ returned'.status # "error"
                   /\ procs' = procs
                   /\ connections' = connections
                   /\ handles' = handles
                   /\ tenants' = tenants
                   /\ invitations' = invitations
       /\ \A p \in Procs :
             /\ (/\ returned'.op = "resolve" /\ returned'.status = "error"
                 /\ procs[p].op = "resolve" /\ procs'[p].pc = "idle")
                   => /\ procs[p].pc \in {"gtc_meta", "gtc_open"}
                      /\ background'.pending = background.pending
             /\ (/\ procs[p].op = "createTenant" /\ procs[p].pc = "ct_schema"
                 /\ \E b \in background'.pending \ background.pending :
                       b.op = "invitationEmail")
                   => /\ returned'.op = "createTenant"
                      /\ returned'.status = "ok"]_vars

\* Both side operations have failed: the lastAccessedAt update of a resolve
\* whose handle is cached and ready, and the invitation e-mail of a tenant
\* whose record and invitation are in the registry.
C29_Witness ==
    /\ \E b \in background.failed :
          /\ b.op = "lastAccess"
          /\ Has(connections, b.tid)
          /\ Get(connections, b.tid) = b.conn
          /\ handles[b.conn].state = "ready"
    /\ \E b \in background.failed :
          /\ b.op = "invitationEmail"
          /\ \E d \in tenants, i \in invitations :
                /\ d.tenantId = b.tid
                /\ i.tenantId = d._id
                /\ i.status = "pending"

\* C30: suspendTenant leaves the connection cache alone. The step that
\* suspends a tenant changes neither the cache nor any handle, and a resolve
\* that starts while a ready handle is cached under its tenantId returns that
\* handle at once, without asking the registry, whatever the tenant's record
\* says.
C30_SuspendKeepsCachedHandle ==
    [][/\ (\E d \in tenants' \ tenants : d.status = "suspended")
             => /\ connections' = connections
                /\ handles' = handles
                /\ insertedAt' = insertedAt
       /\ \A p \in Procs :
             (/\ procs[p].pc = "idle" /\ procs'[p].op = "resolve"
              /\ procs'[p].pc = "gtc_meta")
                => ~ /\ Has(connections, procs'[p].tid)
                     /\ handles[Get(connections, procs'[p].tid)].state = "ready"
       /\ (returned'.op = "resolve" /\ procs' = procs)
             => /\ returned'.status = "ok"
                /\ Has(connections, returned'.tid)
                /\ returned'.conn = Get(connections, returned'.tid)
                /\ connections' = connections
                /\ handles' = handles]_vars

\* A resolve has just returned, from the cache, the ready handle of a tenant
\* that is suspended: the handle was opened before a later one, by the same
\* caller, and is still cached.
C30_Witness ==
    /\ returned.op = "resolve" /\ returned.status = "ok"
    /\ returned.conn < Len(handles)
    /\ Has(connections, returned.tid)
    /\ Get(connections, returned.tid) = returned.conn
    /\ handles[returned.conn].state = "ready"
    /\ \E d \in tenants :
          /\ d.tenantId = returned.tid
          /\ d.status = "suspended" /\ ~d.isActive

\* C31: createTenant opens the tenant store handle only after the registry
\* transaction has committed. The step in which createTenant opens a handle
\* finds both records of the creation in the registry; a commit that fails
\* returns its error and changes neither registry, cache, handles nor stores;
\* a tenant record is deleted only by the rollback of Phase B; and for a
\* creation that failed before its commit no handle was ever opened, no store
\* exists and no rollback has run.
C31_OpenOnlyAfterCommit ==
    [][/\ \A p \in Procs :
             /\ (/\ procs[p].op = "createTenant" /\ procs[p].pc = "gtc_open"
                 /\ procs'[p].pc # "gtc_open"
                 /\ Len(handles') > Len(handles))
                   => \E d \in tenants :
                         /\ d.tenantId = procs[p].tid
                         /\ \E i \in invitations : i.tenantId = d._id
             /\ (/\ procs[p].op = "createTenant" /\ procs[p].pc = "ct_commit"
                 /\ procs'[p].pc = "idle")
                   => /\ returned'.status = "error" /\ returned'.step = "commit"
                      /\ handles' = handles /\ connections' = connections
                      /\ tenants' = tenants /\ invitations' = invitations
                      /\ stores' = stores /\ phaseBFailed' = phaseBFailed
       /\ (\E d \in tenants : d \notin tenants')
             => \E p \in Procs : /\ procs[p].pc = "ct_comp_tenant"
                                 /\ procs'[p].pc # "ct_comp_tenant"
       /\ \A f \in phaseAFailed' :
             /\ \A c \in 1..Len(handles') : handles'[c].tenantId # f.tid
             /\ \A g \in phaseBFailed' : g.tid # f.tid
             /\ generateDatabaseName(f.tid) \notin stores'
             /\ \A q \in Procs : procs'[q].op = "createTenant" => procs'[q].tid # f.tid]_vars

\* A commit has just failed after both documents were written in the
\* session, while another caller holds a handle it opened.
C31_Witness ==
    /\ returned.op = "createTenant" /\ returned.status = "error"
    /\ returned.step = "commit"
    /\ \E f \in phaseAFailed : f.tid = returned.tid /\ f.step = "commit"
    /\ Len(handles) > 0

\* C32: a resolve that misses the cache sends its lookup of the tenant record
\* through a registry connection that is ready, re-established first if it
\* had dropped.
C32_LookupThroughReadyRegistry ==
    [][\A p \in Procs :
          (procs[p].pc # "gtc_meta" /\ procs'[p].pc = "gtc_meta")
             => masterConnection' = "ready"]_vars

\* C33: a cache hit never returns a handle that is not ready. The handle a
\* resolve returns from the cache is ready at that moment, and a resolve that
\* finds a handle cached that is not ready removes the entry and goes on to
\* the registry lookup.
C33_HitOnlyWhenReady ==
    [][/\ (returned'.op = "resolve" /\ procs' = procs)
             => /\ returned'.status = "ok"
                /\ handles[returned'.conn].state = "ready"
                /\ handles'[returned'.conn].state = "ready"
       /\ \A p \in Procs :
             (/\ procs[p].pc = "idle" /\ procs'[p].op = "resolve"
              /\ procs'[p].pc = "gtc_meta"
              /\ Has(connections, procs'[p].tid))
                => /\ handles[Get(connections, procs'[p].tid)].state # "ready"
                   /\ ~Has(connections', procs'[p].tid)
                   /\ handles' = handles]_vars

\* A resolve has found the only handle there is cached but closing, has
\* removed its entry and waits for the registry, while the caller that is
\* closing the handle has not finished.
C33_Witness ==
    /\ Len(handles) = 1
    /\ handles[1].state = "closing"
    /\ ~Has(connections, handles[1].tenantId)
    /\ \E p, q \in Procs :
          /\ procs[p].op = "resolve" /\ procs[p].pc = "gtc_meta"
          /\ procs[p].tid = handles[1].tenantId
          /\ procs[q].pc = "ctc_close" /\ procs[q].closing = 1

\* C34: no store handle is leaked. Whenever no call is in flight, every handle
\* that was opened and has not been closed is the one cached under its
\* tenantId.
C34_NoHandleLeaked ==
    (\A p \in Procs : procs[p].pc = "idle")
       => \A c \in 1..Len(handles) :
             handles[c].state # "closed"
                => /\ Has(connections, handles[c].tenantId)
                   /\ Get(connections, handles[c].tenantId) = c

\* C35: removing a handle never removes another handle's cache entry. A step
\* that deletes a key from the cache deletes the entry of a handle that has
\* disconnected, is closing or has been closed, never the entry of a handle
\* that is ready.
C35_RemovesOnlyOwnEntry ==
    [][\A t \in TenantIds :
          (Has(connections, t) /\ ~Has(connections', t))
             => handles'[Get(connections, t)].state # "ready"]_vars

\* C36: the handle a successful resolve returns is, when it is returned, the
\* one cached under its tenantId and not closed, whatever concurrent resolves
\* of other tenants and their capacity evictions do.
C36_ReturnedHandleCachedAndOpen ==
    [][(returned'.op = "resolve" /\ returned'.status = "ok")
          => /\ Has(connections', returned'.tid)
             /\ Get(connections', returned'.tid) = returned'.conn
             /\ handles'[returned'.conn].state # "closed"]_vars

\* C37: the cache stays bounded. Whenever no call is in flight the cache holds
\* at most maxCachedConnections handles, for concurrent resolves of distinct
\* tenants and when the close of an evicted handle fails.
C37_BoundedWhenQuiet ==
    (\A p \in Procs : procs[p].pc = "idle")
       => Len(connections) <= maxCachedConnections

\* C38: when deleteTenant(t) returns successfully the cache holds no handle
\* for t and no handle to t's store is open, whatever a resolve(t) that
\* started before the record was deleted does meanwhile.
C38_NoHandleAfterDelete ==
    [][(returned'.op = "deleteTenant" /\ returned'.status = "ok")
          => /\ ~Has(connections', returned'.tid)
             /\ \A c \in 1..Len(handles') :
                   handles'[c].tenantId = returned'.tid
                      => handles'[c].state # "ready"]_vars

\* C39: an invitation written by createTenant can be accepted. A register
\* that finds the invitation of its token pending and unexpired, with the
\* tenant it was created for active, asks getTenantConnection for that
\* tenant's tenantId.
C39_RegisterResolvesInvitedTenant ==
    [][\A p \in Procs :
          (/\ procs[p].op = "register" /\ procs[p].pc = "reg_find"
           /\ procs'[p].pc \notin {"reg_find", "idle"})
             => \A i \in invitations, d \in tenants :
                   (/\ i.token = procs[p].token
                    /\ d._id = i.tenantId /\ d.isActive)
                      => procs'[p].tid = d.tenantId]_vars

====
